---- MODULE Spec2Model ----
(***************************************************************************)
(* Debt payoff executor of the finance agent                               *)
(* (src/nodes/executors/finance_debt_payoff.py).                           *)
(*                                                                         *)
(* Units.  Money is an integer number of mills (1/1000 of a currency       *)
(* unit), so that round(x, 2) is a real conversion: a rounded amount is a  *)
(* multiple of 10 mills.  The monthly rate is an integer number of         *)
(* millionths (round(x, 6)), the savings rate an integer number of ten     *)
(* thousandths (round(x, 4)).  The raw interest_rate_percent is given in   *)
(* 1e-5 percent and the raw savings_rate_percent in 1e-3 percent, one      *)
(* digit finer than what the code keeps.                                   *)
(* round() is Python's: to nearest, ties to even.                          *)
(***************************************************************************)
EXTENDS Integers, Sequences, FiniteSets, TLC

\* ------------------------------------------------------------------------
\* Arithmetic
\* ------------------------------------------------------------------------

Abs(x) == IF x < 0 THEN -x ELSE x

Min(a, b) == IF a <= b THEN a ELSE b

Max(a, b) == IF a >= b THEN a ELSE b

RECURSIVE Gcd(_, _)
Gcd(a, b) == IF b = 0 THEN a ELSE Gcd(b, a % b)

\* round(n / d) for d > 0: nearest integer, ties to the even one.
RoundHalfEven(n, d) ==
    LET q == n \div d
        r == n % d
    IN  IF 2 * r < d THEN q
        ELSE IF 2 * r > d THEN q + 1
        ELSE IF q % 2 = 0 THEN q ELSE q + 1

\* round(n / d, 2) of an amount n / d in mills: a multiple of 10 mills.
Round2(n, d) ==
    LET g == Gcd(Abs(n), 10 * d)
        k == IF g = 0 THEN 1 ELSE g
    IN  10 * RoundHalfEven(n \div k, (10 * d) \div k)

\* round(x * num / den, 2) for an amount x in mills and a ratio num / den.
MulRound2(x, num, den) ==
    LET g == Gcd(Abs(num), den)
    IN  Round2(x * (num \div g), den \div g)

\* ------------------------------------------------------------------------
\* Unbounded naturals (little-endian sequences of decimal digits), for the
\* amortization formula, whose powers do not fit 32-bit integers.
\* ------------------------------------------------------------------------

RECURSIVE BigOfInt(_)
BigOfInt(k) == IF k = 0 THEN <<>> ELSE <<k % 10>> \o BigOfInt(k \div 10)

RECURSIVE BigMulCarry(_, _, _)
BigMulCarry(b, k, carry) ==
    IF b = <<>> THEN BigOfInt(carry)
    ELSE LET v == Head(b) * k + carry
         IN  <<v % 10>> \o BigMulCarry(Tail(b), k, v \div 10)

RECURSIVE BigTrim(_)
BigTrim(b) ==
    IF b = <<>> THEN b
    ELSE IF b[Len(b)] = 0 THEN BigTrim(SubSeq(b, 1, Len(b) - 1)) ELSE b

\* b * k for a natural k
BigMul(b, k) == BigTrim(BigMulCarry(b, k, 0))

RECURSIVE BigPow(_, _)
BigPow(k, n) == IF n = 0 THEN <<1>> ELSE BigMul(BigPow(k, n - 1), k)

RECURSIVE BigAddCarry(_, _, _)
BigAddCarry(a, b, carry) ==
    IF a = <<>> /\ b = <<>> THEN BigOfInt(carry)
    ELSE LET x == IF a = <<>> THEN 0 ELSE Head(a)
             y == IF b = <<>> THEN 0 ELSE Head(b)
             v == x + y + carry
         IN  <<v % 10>> \o BigAddCarry(IF a = <<>> THEN a ELSE Tail(a),
                                       IF b = <<>> THEN b ELSE Tail(b),
                                       v \div 10)

BigAdd(a, b) == BigTrim(BigAddCarry(a, b, 0))

\* a - b for a >= b
RECURSIVE BigSubBorrow(_, _, _)
BigSubBorrow(a, b, borrow) ==
    IF a = <<>> THEN <<>>
    ELSE LET y == IF b = <<>> THEN 0 ELSE Head(b)
             v == Head(a) - y - borrow
         IN  <<v % 10>> \o BigSubBorrow(Tail(a),
                                        IF b = <<>> THEN b ELSE Tail(b),
                                        IF v < 0 THEN 1 ELSE 0)

BigSub(a, b) == BigTrim(BigSubBorrow(a, b, 0))

\* -1, 0, 1 as a < b, a = b, a > b (both without leading zeros)
RECURSIVE BigCmpFrom(_, _, _)
BigCmpFrom(a, b, i) ==
    IF i = 0 THEN 0
    ELSE IF a[i] < b[i] THEN -1
    ELSE IF a[i] > b[i] THEN 1
    ELSE BigCmpFrom(a, b, i - 1)

BigCmp(a, b) ==
    IF Len(a) < Len(b) THEN -1
    ELSE IF Len(a) > Len(b) THEN 1
    ELSE BigCmpFrom(a, b, Len(a))

\* The largest c in lo..hi with den * c <= num (den * lo <= num is given).
RECURSIVE BigFloorSearch(_, _, _, _)
BigFloorSearch(num, den, lo, hi) ==
    IF lo >= hi THEN lo
    ELSE LET mid == (lo + hi + 1) \div 2
         IN  IF BigCmp(BigMul(den, mid), num) <= 0
             THEN BigFloorSearch(num, den, mid, hi)
             ELSE BigFloorSearch(num, den, lo, mid - 1)

\* round(num / den) for naturals num, den > 0 with num / den <= hi,
\* ties to even.
BigRoundHalfEven(num, den, hi) ==
    LET twoDen == BigMul(den, 2)
        shifted == BigAdd(BigMul(num, 2), den)
        c == BigFloorSearch(shifted, twoDen, 0, hi + 1)
        tie == BigCmp(BigMul(twoDen, c), shifted) = 0
    IN  IF tie /\ c % 2 = 1 THEN c - 1 ELSE c

\* ------------------------------------------------------------------------
\* Optional values (Python's None)
\* ------------------------------------------------------------------------

None == <<>>

Some(v) == <<v>>

\* ------------------------------------------------------------------------
\* JSON values of a parameter mapping.  A mapping (a Python dict) is a
\* function from its keys to values; a value is a number, null, a string
\* or a list.
\* ------------------------------------------------------------------------

Num(n) == [kind |-> "num", v |-> n, s |-> "", items |-> <<>>]

Null == [kind |-> "null", v |-> 0, s |-> "", items |-> <<>>]

Str(text) == [kind |-> "str", v |-> 0, s |-> text, items |-> <<>>]

List(entries) == [kind |-> "list", v |-> 0, s |-> "", items |-> entries]

EmptyDict == [k \in {} |-> Null]

RequiredKeys ==
    {"salary", "fixed_expenses", "debt_amount", "interest_rate_percent",
     "months"}

\* the mapping with the well-formed values of a record of numbers
Dict(p) ==
    [ k \in DOMAIN p |->
        IF k = "one_time_payments" THEN List(p[k]) ELSE Num(p[k]) ]

\* ------------------------------------------------------------------------
\* Inputs: the parameter mappings the extraction step can hand over
\* ------------------------------------------------------------------------

\* the longest horizon of the small parameter sets
MaxMonths == 4

\* the most one-time payments a small parameter set lists
MaxOneTime == 2

\* One-time payments: in range, twice the same month, month 0 (rejected by
\* the schema) and a month past the horizon.
OneTimeChoices ==
    { [month |-> 1, amount |-> 10000],
      [month |-> 2, amount |-> 80004],
      [month |-> 2, amount |-> 10000],
      [month |-> 0, amount |-> 10000],
      [month |-> MaxMonths + 1, amount |-> 10000] }

RECURSIVE SeqsUpTo(_, _)
SeqsUpTo(S, n) ==
    IF n = 0 THEN { <<>> }
    ELSE LET shorter == SeqsUpTo(S, n - 1)
         IN  shorter \cup { Append(s, x) : s \in shorter, x \in S }

SmallParameters ==
    [ salary : {100000, 50004},
      fixed_expenses : {20000, 60000},
      debt_amount : {100000, 30000, 4},
      interest_rate_percent : {0, 2500004, 999996},
      months : 0..MaxMonths,
      savings_rate_percent : {10000, 50004},
      one_time_payments : SeqsUpTo(OneTimeChoices, MaxOneTime) ]

\* salary 12000, expenses 7500, debt 20000, 2.5 %, 6 months, 10 % savings
ScenarioA ==
    [ salary |-> 12000000, fixed_expenses |-> 7500000,
      debt_amount |-> 20000000, interest_rate_percent |-> 250000,
      months |-> 6, savings_rate_percent |-> 10000,
      one_time_payments |-> <<>> ]

\* the same with a one-time payment of 5000 in month 3
ScenarioB ==
    [ScenarioA EXCEPT
        !.one_time_payments = << [month |-> 3, amount |-> 5000000] >>]

\* the same with a one-time payment of 15000 in month 3, which overshoots
ScenarioOvershoot ==
    [ScenarioA EXCEPT
        !.one_time_payments = << [month |-> 3, amount |-> 15000000] >>]

\* a debt of 100.00 at 0 % paid 33.33 a month for 3 months
ScenarioThirds ==
    [ salary |-> 100000, fixed_expenses |-> 56670,
      debt_amount |-> 100000, interest_rate_percent |-> 0,
      months |-> 3, savings_rate_percent |-> 10000,
      one_time_payments |-> <<>> ]

ParameterSets ==
    SmallParameters
        \cup {ScenarioA, ScenarioB, ScenarioOvershoot, ScenarioThirds}

\* a request the variants below start from: salary 50.004, expenses 20,
\* debt 30, 0 %, 2 months, 10 % savings, 80.004 extra in month 2
BaseParameters ==
    [ salary |-> 50004, fixed_expenses |-> 20000, debt_amount |-> 30000,
      interest_rate_percent |-> 0, months |-> 2,
      savings_rate_percent |-> 10000,
      one_time_payments |-> << [month |-> 2, amount |-> 80004] >> ]

\* the same request with one value at the edge of, or outside, its range
RangeParameters ==
    { [BaseParameters EXCEPT !.salary = x] : x \in {0, 4, -100000} }
    \cup { [BaseParameters EXCEPT !.fixed_expenses = x] : x \in {0, -20000} }
    \cup { [BaseParameters EXCEPT !.debt_amount = x] : x \in {0, -30000} }
    \cup { [BaseParameters EXCEPT !.interest_rate_percent = x] :
              x \in {-4, -100000, 10000000, 10000004, 15000000} }
    \cup { [BaseParameters EXCEPT !.months = x] : x \in {-1} }
    \cup { [BaseParameters EXCEPT !.savings_rate_percent = x] :
              x \in {0, -4, -10000, 100000, 100004, 150000} }
    \cup { [BaseParameters EXCEPT !.one_time_payments = << e >>] :
              e \in { [month |-> 2, amount |-> 0],
                      [month |-> 2, amount |-> -4],
                      [month |-> 2, amount |-> -10000],
                      [month |-> -1, amount |-> 10000] } }

\* what the model answered for the base request, with a currency
BaseOutput ==
    [ k \in DOMAIN BaseParameters \cup {"currency"} |->
        IF k = "currency" THEN Str("USD") ELSE Dict(BaseParameters)[k] ]

Restrict(d, keys) == [ k \in DOMAIN d \cap keys |-> d[k] ]

\* answers that leave keys out
PartialOutputs == { Restrict(BaseOutput, keys) : keys \in SUBSET DOMAIN BaseOutput }

\* one-time entries that are skipped (no dict with month and amount) and
\* entries whose month or amount cannot be converted
OddEntries ==
    { [description |-> "note"],
      [month |-> 1],
      [month |-> 1, amount |-> 10000, malformed |-> TRUE] }

\* answers with a value that is null, a text that is no numeral, a number
\* in place of the list, or a list with an odd entry
MalformedOutputs ==
    { [BaseOutput EXCEPT ![k] = x] :
        k \in DOMAIN BaseOutput, x \in {Null, Str("abc"), Num(5)} }
    \cup { [BaseOutput EXCEPT !["one_time_payments"] =
                List(<< e >> \o BaseParameters.one_time_payments)] :
              e \in OddEntries }

\* ------------------------------------------------------------------------
\* The message history and _find_previous_parameters
\* ------------------------------------------------------------------------

\* the longest history of the refinement requests
MaxHistory == 2

\* A message of the history.  A tool message has a content that is JSON or
\* not, and the JSON has a status and maybe a plan (a mapping); a human
\* message has a text, of which the model keeps what the four patterns
\* find in it (debt, rate, salary, expenses) and whether it names a number
\* of months.
ToolMessage(status, has_plan, plan_dump) ==
    [ type |-> "tool", json |-> TRUE, status |-> status,
      has_plan |-> has_plan, plan |-> plan_dump,
      found |-> EmptyDict, names_months |-> FALSE ]

\* a tool message whose content is no JSON
TextToolMessage ==
    [ type |-> "tool", json |-> FALSE, status |-> "", has_plan |-> FALSE,
      plan |-> EmptyDict, found |-> EmptyDict, names_months |-> FALSE ]

HumanMessage(found, names_months) ==
    [ type |-> "human", json |-> FALSE, status |-> "", has_plan |-> FALSE,
      plan |-> EmptyDict, found |-> found, names_months |-> names_months ]

\* plan.model_dump(mode="json"), the fields the fallback reads: money in
\* mills, the monthly rate in millionths, the savings rate in 1e-4
PlanDump(sal, expenses, debt, rate, horizon, savings) ==
    [ k \in {"salary", "fixed_expenses", "initial_debt",
             "monthly_interest_rate", "months", "savings_rate"} |->
        CASE k = "salary" -> Num(sal)
          [] k = "fixed_expenses" -> Num(expenses)
          [] k = "initial_debt" -> Num(debt)
          [] k = "monthly_interest_rate" -> Num(rate)
          [] k = "months" -> Num(horizon)
          [] OTHER -> Num(savings) ]

\* salary 100, expenses 20, debt 100, 2.5 % a month, 3 months, 20 % savings
FirstPlan == PlanDump(100000, 20000, 100000, 25000, 3, 2000)

\* salary 80, expenses 20, debt 50, 1.2345 % a month, 2 months, 12.5 % savings
SecondPlan == PlanDump(80000, 20000, 50000, 12345, 2, 1250)

\* what the patterns capture: salary 100, expenses 20, debt 30, 2.5 %
Captured(keys) ==
    [ k \in keys |->
        CASE k = "salary" -> Num(100000)
          [] k = "fixed_expenses" -> Num(20000)
          [] k = "debt_amount" -> Num(30000)
          [] OTHER -> Num(250000) ]

\* salary 90, expenses 30, debt 40, 1 %
CapturedOther ==
    [ k \in {"salary", "fixed_expenses", "debt_amount",
             "interest_rate_percent"} |->
        CASE k = "salary" -> Num(90000)
          [] k = "fixed_expenses" -> Num(30000)
          [] k = "debt_amount" -> Num(40000)
          [] OTHER -> Num(100000) ]

PatternKeys ==
    {"salary", "fixed_expenses", "debt_amount", "interest_rate_percent"}

\* the messages a history is made of
HistoryMessages ==
    { ToolMessage("success", TRUE, FirstPlan),
      ToolMessage("success", TRUE, SecondPlan),
      ToolMessage("error", TRUE, SecondPlan),
      TextToolMessage,
      HumanMessage(Captured(PatternKeys), FALSE),
      HumanMessage(CapturedOther, TRUE),
      HumanMessage(Captured(PatternKeys \ {"interest_rate_percent"}), TRUE),
      HumanMessage(EmptyDict, FALSE) }

Histories == SeqsUpTo(HistoryMessages, MaxHistory)

\* no history, the first plan, and a "success" whose plan has no salary
BasicHistories ==
    { <<>>,
      << ToolMessage("success", TRUE, FirstPlan) >>,
      << ToolMessage("success", TRUE,
                     Restrict(FirstPlan, DOMAIN FirstPlan \ {"salary"})) >> }

\* plan.get(key): null when the key is absent
Get(d, k) == IF k \in DOMAIN d THEN d[k] ELSE Null

\* plan.get(key, 0)
GetOrZero(d, k) == IF k \in DOMAIN d THEN d[k] ELSE Num(0)

\* round(x * 100, 2) raises on a value that is no number; data.get and
\* json.loads raise on a content that is no JSON object
PlanMessageRaises(msg) ==
    \/ ~msg.json
    \/ /\ msg.status = "success"
       /\ msg.has_plan
       /\ \/ GetOrZero(msg.plan, "monthly_interest_rate").kind # "num"
          \/ GetOrZero(msg.plan, "savings_rate").kind # "num"

\* the tool message is taken: status success, a plan, no exception
PlanMessageTaken(msg) ==
    /\ msg.type = "tool"
    /\ ~PlanMessageRaises(msg)
    /\ msg.status = "success"
    /\ msg.has_plan

\* the parameters read from the plan of a tool message; the percentages are
\* round(rate * 100, 2), in 1e-5 % and in 1e-3 %
FromPlan(plan_dump) ==
    [ k \in RequiredKeys \cup {"savings_rate_percent", "currency"} |->
        CASE k = "salary" -> Get(plan_dump, "salary")
          [] k = "fixed_expenses" -> Get(plan_dump, "fixed_expenses")
          [] k = "debt_amount" -> Get(plan_dump, "initial_debt")
          [] k = "interest_rate_percent" ->
               Num(1000 * RoundHalfEven(
                     100 * GetOrZero(plan_dump, "monthly_interest_rate").v,
                     10000))
          [] k = "months" -> Get(plan_dump, "months")
          [] k = "savings_rate_percent" ->
               Num(10 * RoundHalfEven(
                     100 * GetOrZero(plan_dump, "savings_rate").v, 100))
          [] OTHER -> Str("EGP") ]

\* all([debt_m, rate_m, salary_m, expense_m])
AllPatternsFound(msg) ==
    msg.type = "human" /\ PatternKeys \subseteq DOMAIN msg.found

\* the parameters read from a human message: months 6 and savings 10 % are
\* fixed
FromText(found) ==
    [ k \in RequiredKeys \cup {"savings_rate_percent", "currency"} |->
        CASE k \in PatternKeys -> found[k]
          [] k = "months" -> Num(6)
          [] k = "savings_rate_percent" -> Num(10000)
          [] OTHER -> Str("EGP") ]

\* for msg in reversed(messages): the index of the last message with P, or 0
RECURSIVE LastWhere(_, _, _)
LastWhere(msgs, P(_), i) ==
    IF i = 0 THEN 0
    ELSE IF P(msgs[i]) THEN i
    ELSE LastWhere(msgs, P, i - 1)

\* a search that takes the oldest message instead of the most recent
FindPreviousParametersOldest(msgs) ==
    LET tools == { i \in 1..Len(msgs) : PlanMessageTaken(msgs[i]) }
        humans == { i \in 1..Len(msgs) : AllPatternsFound(msgs[i]) }
    IN  IF tools # {}
        THEN FromPlan(msgs[CHOOSE i \in tools :
                                   \A j \in tools : i <= j].plan)
        ELSE IF humans # {}
        THEN FromText(msgs[CHOOSE i \in humans :
                                   \A j \in humans : i <= j].found)
        ELSE EmptyDict

FindPreviousParameters(msgs) ==
    LET tool == LastWhere(msgs, PlanMessageTaken, Len(msgs))
        human == LastWhere(msgs, AllPatternsFound, Len(msgs))
    IN  IF tool # 0 THEN FromPlan(msgs[tool].plan)
        ELSE IF human # 0 THEN FromText(msgs[human].found)
        ELSE EmptyDict

\* the fallback of the first plan: 2.5 % and 20 % as percentages
PreviousPlan ==
    [ k \in RequiredKeys \cup {"savings_rate_percent", "currency"} |->
        CASE k = "salary" -> Num(100000)
          [] k = "fixed_expenses" -> Num(20000)
          [] k = "debt_amount" -> Num(100000)
          [] k = "interest_rate_percent" -> Num(250000)
          [] k = "months" -> Num(3)
          [] k = "savings_rate_percent" -> Num(20000)
          [] OTHER -> Str("EGP") ]

\* what _find_previous_parameters returns for the basic histories:
\* nothing, the parameters of the first plan, and these without a salary
PreviousChoices == { FindPreviousParameters(h) : h \in BasicHistories }

\* follow-up answers that name few parameters: only the months, the months
\* and the rate, or nothing at all
RefinementOutputs ==
    { Restrict([BaseOutput EXCEPT !["months"] = Num(4)], {"months"}),
      Restrict([BaseOutput EXCEPT !["interest_rate_percent"] = Num(100000)],
               {"months", "interest_rate_percent"}),
      EmptyDict }

\* the answer of the model and the message history of one request
ExtractionCases ==
    { [output |-> Dict(p), history |-> <<>>] :
        p \in ParameterSets \cup RangeParameters }
    \cup [ output : PartialOutputs \cup MalformedOutputs,
           history : BasicHistories ]
    \cup [ output : RefinementOutputs, history : Histories ]

\* ------------------------------------------------------------------------
\* _extract_parameters: merge, defaults, required keys
\* ------------------------------------------------------------------------

\* for key in previous_params: if key not in params or params[key] is None
MergePrevious(raw, previous) ==
    [ k \in DOMAIN raw \cup DOMAIN previous |->
        IF k \in DOMAIN previous
           /\ (k \notin DOMAIN raw \/ raw[k].kind = "null")
        THEN previous[k]
        ELSE raw[k] ]

\* params.setdefault(..): only a key that is absent gets the default
WithDefaults(d) ==
    [ k \in DOMAIN d
            \cup {"savings_rate_percent", "currency", "one_time_payments"} |->
        IF k \in DOMAIN d THEN d[k]
        ELSE CASE k = "savings_rate_percent" -> Num(10000)
               [] k = "currency" -> Str("EGP")
               [] OTHER -> List(<<>>) ]

\* a required check that is content with any one of the keys
RequiredPresentAny(d) == \E k \in RequiredKeys : k \in DOMAIN d

\* all(k in params for k in required)
RequiredPresent(d) == \A k \in RequiredKeys : k \in DOMAIN d

\* ------------------------------------------------------------------------
\* _calculate_debt_payoff_plan: parsing
\* ------------------------------------------------------------------------

\* a parsing that keeps the digits after the cents
ParseMoneyUnrounded(raw) == raw

ParseMoney(raw) == Round2(raw, 1)

\* round(rate_percent / 100, 6), in millionths
ParseMonthlyRate(raw) == RoundHalfEven(raw, 10)

\* round(savings_percent / 100, 4), in ten thousandths
ParseSavingsRate(raw) == RoundHalfEven(raw, 10)

SavingsAmount(salary, savings_rate) == MulRound2(salary, savings_rate, 10000)

\* a regular payment that forgets the savings
RegularPaymentNoSavings(salary, fixed_expenses, savings_amount) ==
    Round2(salary - fixed_expenses, 1)

RegularPayment(salary, fixed_expenses, savings_amount) ==
    Round2(salary - fixed_expenses - savings_amount, 1)

\* isinstance(otp, dict) and "month" in otp and "amount" in otp; an entry
\* that is no dict is an entry without these keys
HasMonthAndAmount(entry) ==
    "month" \in DOMAIN entry /\ "amount" \in DOMAIN entry

\* int(otp["month"]) or float(otp["amount"]) raises: the value is null or
\* not a number (such an entry carries the mark "malformed")
EntryRaises(entry) == HasMonthAndAmount(entry) /\ "malformed" \in DOMAIN entry

\* the OneTimePayment objects built from the listed entries, in order;
\* entries without month and amount are skipped
ParseOneTimePayments(raw) ==
    LET kept == SelectSeq(raw, HasMonthAndAmount)
    IN  [ i \in 1..Len(kept) |->
            [month |-> kept[i].month, amount |-> ParseMoney(kept[i].amount)] ]

\* a parsing that converts the five required values only
ParseRaisesRequiredOnly(d) ==
    \E k \in RequiredKeys : k \notin DOMAIN d \/ d[k].kind # "num"

\* float(..) / int(..) of a value that is null, a text or a list; a missing
\* key; iterating one_time_payments that is null or a number (a text is
\* iterated letter by letter, and no letter is a dict)
ParseRaises(d) ==
    \/ \E k \in RequiredKeys : k \notin DOMAIN d
    \/ \E k \in RequiredKeys \cup {"savings_rate_percent"} :
          k \in DOMAIN d /\ d[k].kind # "num"
    \/ /\ "one_time_payments" \in DOMAIN d
       /\ \/ d["one_time_payments"].kind \in {"null", "num"}
          \/ \E i \in 1..Len(d["one_time_payments"].items) :
                EntryRaises(d["one_time_payments"].items[i])

\* OneTimePayment(month > 0, amount > 0): the schema rejects anything else
OneTimePaymentRejected(otps) ==
    \E i \in 1..Len(otps) : otps[i].month <= 0 \/ otps[i].amount <= 0

\* one_time_by_month.get(month, 0.0): a later entry overwrites an earlier
RECURSIVE OneTimeByMonthFrom(_, _, _)
OneTimeByMonthFrom(otps, m, i) ==
    IF i = 0 THEN 0
    ELSE IF otps[i].month = m THEN otps[i].amount
    ELSE OneTimeByMonthFrom(otps, m, i - 1)

\* a mapping by month that adds up the entries of a month
RECURSIVE OneTimeByMonthSum(_, _)
OneTimeByMonthSum(otps, m) ==
    IF otps = <<>> THEN 0
    ELSE (IF Head(otps).month = m THEN Head(otps).amount ELSE 0)
         + OneTimeByMonthSum(Tail(otps), m)

OneTimeByMonth(otps, m) == OneTimeByMonthFrom(otps, m, Len(otps))

\* sum(otp.amount for otp in one_time_payments)
RECURSIVE TotalBonus(_)
TotalBonus(otps) ==
    IF otps = <<>> THEN 0 ELSE Head(otps).amount + TotalBonus(Tail(otps))

\* ------------------------------------------------------------------------
\* _calculate_debt_payoff_plan: one month of the loop
\* ------------------------------------------------------------------------

\* Interest cut off after the cents instead of rounded
InterestTruncated(balance, monthly_rate) ==
    LET g == Gcd(Abs(monthly_rate), 1000000)
    IN  10 * ((balance * (monthly_rate \div g)) \div (10 * (1000000 \div g)))

Interest(balance, monthly_rate) == MulRound2(balance, monthly_rate, 1000000)

\* ClampSplit that takes the whole overshoot from the one-time payment and
\* never touches the regular payment
ClampSplitOneTimeOnly(balance, interest, regular, one_time, new_balance) ==
    IF one_time > 0
    THEN [ regular |-> regular,
           one_time |-> Round2(one_time - Min(one_time, Abs(new_balance)), 1) ]
    ELSE [ regular |-> Round2(balance + interest, 1), one_time |-> one_time ]

\* ClampSplit that takes the whole overshoot from the one-time payment,
\* even more than the payment holds
ClampSplitUncappedReduction(balance, interest, regular, one_time, new_balance) ==
    IF one_time > 0
    THEN [ regular |-> regular,
           one_time |-> Round2(one_time - Abs(new_balance), 1) ]
    ELSE [ regular |-> Round2(balance + interest, 1), one_time |-> one_time ]

\* ClampSplit that cuts the regular payment first and the one-time payment
\* only by what is left of the overshoot
ClampSplitRegularFirst(balance, interest, regular, one_time, new_balance) ==
    LET over == Abs(new_balance)
        reduction == Min(Max(regular, 0), over)
    IN  IF one_time > 0
        THEN [ regular |-> Round2(regular - reduction, 1),
               one_time |-> Round2(one_time - (over - reduction), 1) ]
        ELSE [ regular |-> Round2(balance + interest, 1),
               one_time |-> one_time ]

\* the early-payoff adjustment of the payment split
ClampSplit(balance, interest, regular, one_time, new_balance) ==
    LET needed == Round2(balance + interest, 1)
        over == Abs(new_balance)
        reduction == Min(one_time, over)
        remaining_over == over - reduction
    IN  IF one_time > 0
        THEN [ regular |-> IF remaining_over > 0
                           THEN Round2(regular - remaining_over, 1)
                           ELSE regular,
               one_time |-> Round2(one_time - reduction, 1) ]
        ELSE [ regular |-> Round2(needed, 1), one_time |-> one_time ]

\* MonthStep without the early-payoff clamp: the balance goes negative
MonthStepNoClamp(balance, m, monthly_rate, regular_payment, otps) ==
    LET interest == MulRound2(balance, monthly_rate, 1000000)
        one_time == OneTimeByMonth(otps, m)
        total == Round2(regular_payment + one_time, 1)
    IN  [ interest |-> interest,
          regular |-> regular_payment,
          one_time |-> one_time,
          total |-> total,
          new_balance |-> Round2(balance + interest - total, 1),
          clamped |-> FALSE ]

\* MonthStep whose clamp adjusts the split but keeps the nominal total
MonthStepStaleTotal(balance, m, monthly_rate, regular_payment, otps) ==
    LET interest == MulRound2(balance, monthly_rate, 1000000)
        one_time == OneTimeByMonth(otps, m)
        total == Round2(regular_payment + one_time, 1)
        new_balance == Round2(balance + interest - total, 1)
        over == Abs(new_balance)
    IN  IF new_balance < 0
        THEN [ interest |-> interest,
               regular |-> IF one_time > 0
                           THEN Round2(regular_payment
                                       - (over - Min(one_time, over)), 1)
                           ELSE Round2(balance + interest, 1),
               one_time |-> Round2(one_time - Min(one_time, over), 1),
               total |-> total,
               new_balance |-> 0,
               clamped |-> TRUE ]
        ELSE [ interest |-> interest,
               regular |-> regular_payment,
               one_time |-> one_time,
               total |-> total,
               new_balance |-> new_balance,
               clamped |-> FALSE ]

\* MonthStep that charges the interest on the balance after the payment
MonthStepInterestAfterPayment(balance, m, monthly_rate, regular_payment, otps) ==
    LET one_time == OneTimeByMonth(otps, m)
        total == Round2(regular_payment + one_time, 1)
        interest == Interest(balance - total, monthly_rate)
        new_balance == Round2(balance + interest - total, 1)
        split == ClampSplit(balance, interest, regular_payment, one_time,
                            new_balance)
    IN  IF new_balance < 0
        THEN [ interest |-> interest,
               regular |-> split.regular,
               one_time |-> split.one_time,
               total |-> Round2(split.regular + split.one_time, 1),
               new_balance |-> 0,
               clamped |-> TRUE ]
        ELSE [ interest |-> interest,
               regular |-> regular_payment,
               one_time |-> one_time,
               total |-> total,
               new_balance |-> new_balance,
               clamped |-> FALSE ]

MonthStep(balance, m, monthly_rate, regular_payment, otps) ==
    LET interest == Interest(balance, monthly_rate)
        one_time == OneTimeByMonth(otps, m)
        total == Round2(regular_payment + one_time, 1)
        new_balance == Round2(balance + interest - total, 1)
        split == ClampSplit(balance, interest, regular_payment, one_time,
                            new_balance)
    IN  IF new_balance < 0
        THEN [ interest |-> interest,
               regular |-> split.regular,
               one_time |-> split.one_time,
               total |-> Round2(split.regular + split.one_time, 1),
               new_balance |-> 0,
               clamped |-> TRUE ]
        ELSE [ interest |-> interest,
               regular |-> regular_payment,
               one_time |-> one_time,
               total |-> total,
               new_balance |-> new_balance,
               clamped |-> FALSE ]

\* ------------------------------------------------------------------------
\* _calc_required_payment
\* ------------------------------------------------------------------------

\* ZeroDivisionError: a division by months = 0, or 0.0 ** -months
RequiredPaymentRaises(rate, months) ==
    \/ months = 0
    \/ rate = -1000000 /\ months > 0

\* rate * effective / (1 - (1 + rate) ** -months), rounded to cents, for
\* rate = p / q > 0:  p * effective * (q + p)^n / (q * ((q + p)^n - q^n))
AmortizedPayment(effective, rate, months) ==
    LET g == Gcd(rate, 1000000)
        p == rate \div g
        q == 1000000 \div g
        grown == BigPow(q + p, months)
        num == BigMul(BigMul(grown, effective), p)
        den == BigMul(BigMul(BigSub(grown, BigPow(q, months)), q), 10)
    IN  10 * BigRoundHalfEven(num, den, (effective * (q + p)) \div (10 * q) + 1)

\* the solver without the division by the annuity factor: interest only
CalcRequiredPaymentInterestOnly(debt, rate, months, bonus) ==
    IF rate = 0
    THEN Max(0, Round2(debt - bonus, months))
    ELSE MulRound2(Max(0, debt - bonus), rate, 1000000)

\* for rate >= 0 and months > 0
CalcRequiredPayment(debt, rate, months, bonus) ==
    IF rate = 0
    THEN Max(0, Round2(debt - bonus, months))
    ELSE LET effective == Max(0, debt - bonus)
         IN  IF effective = 0 THEN 0
             ELSE AmortizedPayment(effective, rate, months)

\* ------------------------------------------------------------------------
\* FinanceDebtPlan and _validate_plan
\* ------------------------------------------------------------------------

\* the field constraints of FinanceDebtPlan; constructing a plan that
\* breaks one raises a validation error
\* field constraints with a monthly rate strictly below 1
PlanFieldsValidRateBelowOne(sal, expenses, debt, rate, horizon, savings) ==
    /\ sal > 0
    /\ expenses > 0
    /\ debt > 0
    /\ rate >= 0 /\ rate < 1000000
    /\ horizon > 0
    /\ savings >= 0 /\ savings <= 10000

PlanFieldsValid(sal, expenses, debt, rate, horizon, savings) ==
    /\ sal > 0
    /\ expenses > 0
    /\ debt > 0
    /\ rate >= 0 /\ rate <= 1000000
    /\ horizon > 0
    /\ savings >= 0 /\ savings <= 10000

NoCashError == "No cash for debt: expenses+savings >= salary"

BonusMonthError(m, months) ==
    "Bonus month " \o ToString(m) \o " outside 1-" \o ToString(months)

NegativeBalanceError(m) == "M" \o ToString(m) \o ": Negative balance"

BalanceIncreasedError(m) == "M" \o ToString(m) \o ": Balance increased"

CalcMismatchError(m) == "M" \o ToString(m) \o ": Calc mismatch"

\* a range check that reports the first payment out of range only
RECURSIVE BonusMonthErrorsFirstOnly(_, _)
BonusMonthErrorsFirstOnly(otps, months) ==
    IF otps = <<>> THEN <<>>
    ELSE IF Head(otps).month < 1 \/ Head(otps).month > months
         THEN << BonusMonthError(Head(otps).month, months) >>
         ELSE BonusMonthErrorsFirstOnly(Tail(otps), months)

\* the one-time payment range check, entry by entry
RECURSIVE BonusMonthErrors(_, _)
BonusMonthErrors(otps, months) ==
    IF otps = <<>> THEN <<>>
    ELSE (IF Head(otps).month < 1 \/ Head(otps).month > months
          THEN << BonusMonthError(Head(otps).month, months) >>
          ELSE <<>>)
         \o BonusMonthErrors(Tail(otps), months)

\* row checks that report every growth of the balance, also in a month
\* whose payment is below the interest
RowErrorsAnyIncrease(row, prev_balance) ==
    LET expected == Round2(prev_balance + row.interest_charged
                           - row.total_payment, 1)
    IN  (IF row.remaining_balance < -10
         THEN << NegativeBalanceError(row.month) >> ELSE <<>>)
        \o (IF row.remaining_balance > prev_balance + 10
            THEN << BalanceIncreasedError(row.month) >> ELSE <<>>)
        \o (IF Abs(row.remaining_balance - expected) > 20
            THEN << CalcMismatchError(row.month) >> ELSE <<>>)

\* the month-by-month checks of one row against the previous balance
RowErrors(row, prev_balance) ==
    LET expected == Round2(prev_balance + row.interest_charged
                           - row.total_payment, 1)
    IN  (IF row.remaining_balance < -10
         THEN << NegativeBalanceError(row.month) >> ELSE <<>>)
        \o (IF /\ row.total_payment >= row.interest_charged
               /\ row.remaining_balance > prev_balance + 10
            THEN << BalanceIncreasedError(row.month) >> ELSE <<>>)
        \o (IF Abs(row.remaining_balance - expected) > 20
            THEN << CalcMismatchError(row.month) >> ELSE <<>>)

RECURSIVE RowsErrors(_, _)
RowsErrors(rows, prev_balance) ==
    IF rows = <<>> THEN <<>>
    ELSE RowErrors(Head(rows), prev_balance)
         \o RowsErrors(Tail(rows), Head(rows).remaining_balance)

\* ValidatePlan that goes on with the other checks after "no cash"
ValidatePlanNoEarlyReturn(plan) ==
    LET savings == MulRound2(plan.salary, plan.savings_rate, 10000)
        available == Round2(plan.salary - plan.fixed_expenses - savings, 1)
    IN  (IF available <= 0 THEN << NoCashError >> ELSE <<>>)
        \o BonusMonthErrors(plan.one_time_payments, plan.months)
        \o RowsErrors(plan.monthly_rows, Round2(plan.initial_debt, 1))

ValidatePlan(plan) ==
    LET savings == MulRound2(plan.salary, plan.savings_rate, 10000)
        available == Round2(plan.salary - plan.fixed_expenses - savings, 1)
    IN  IF available <= 0
        THEN << NoCashError >>
        ELSE BonusMonthErrors(plan.one_time_payments, plan.months)
             \o RowsErrors(plan.monthly_rows, Round2(plan.initial_debt, 1))

\* ------------------------------------------------------------------------
\* State of one run of finance_debt_payoff_executor
\* ------------------------------------------------------------------------

VARIABLES
    pc,                \* where the run is
    history,           \* state["messages"] before this run, or None
    llm_output,        \* the mapping parsed from the model's answer, or None
    previous_params,   \* what _find_previous_parameters returned, or None
    params,            \* the extracted parameter mapping, or None
    month,             \* the month the loop has completed
    balance,
    total_interest,
    total_saved,
    total_regular,
    total_one_time,
    monthly_rows,
    plan,              \* the FinanceDebtPlan returned, or None
    validation_errors, \* what _validate_plan returned, or None
    store,             \* the documents put under ("finance_debt_plans", ..)
    store_calls,       \* the calls of _store_plan made by this run
    messages           \* the tool messages the run returned

\* the graph of graph.py around the executor: one run of the compiled graph
VARIABLES
    node,                 \* the node the graph runs next, END, or KeyError
    assistant_type,       \* Configuration.assistant_type
    enabled_memory_types, \* Configuration.enabled_memory_types
    state_messages,       \* state["messages"]
    visited,              \* the nodes this run has executed, in order
    namespace_docs        \* the values put under ("finance_debt_plans",
                          \* assistant_type, user_id), each with its origin

graphVars == << node, assistant_type, enabled_memory_types, state_messages,
                visited, namespace_docs >>

vars == << pc, history, llm_output, previous_params, params, month, balance, total_interest, total_saved,
           total_regular, total_one_time, monthly_rows, plan,
           validation_errors, store, store_calls, messages, node,
           assistant_type, enabled_memory_types, state_messages, visited,
           namespace_docs >>

\* the messages of state["messages"], by what the graph reads of them: the
\* type and the tool calls
Human == [type |-> "human", tool_calls |-> <<>>]

Ai(tool_calls) == [type |-> "ai", tool_calls |-> tool_calls]

Tool == [type |-> "tool", tool_calls |-> <<>>]

\* a RouteIntent tool call; args is None when the call carries no intent
RouteIntent(args) == [name |-> "RouteIntent", args |-> args]

\* get_finance_config and the default of Configuration.enabled_memory_types
FinanceMemoryTypes ==
    { "profile", "finance_transactions", "finance_budgets", "finance_goals",
      "finance_recurring_payments", "finance_debt_plans" }

DefaultMemoryTypes == { "profile" }

END == "__end__"

\* the run stops with the KeyError of a branch whose result is no key of its
\* path map
KeyError == "KeyError"

\* the debt_payoff_plan turn at the moment the executor node is entered
DebtTurn == << Human, Ai(<< RouteIntent(Some("debt_payoff_plan")) >>) >>


loopVars == << month, balance, total_interest, total_saved, total_regular,
               total_one_time, monthly_rows >>

\* the values parsed at the top of _calculate_debt_payoff_plan
salary == ParseMoney(params[1]["salary"].v)

fixed_expenses == ParseMoney(params[1]["fixed_expenses"].v)

initial_debt == ParseMoney(params[1]["debt_amount"].v)

months == params[1]["months"].v

monthly_rate == ParseMonthlyRate(params[1]["interest_rate_percent"].v)

savings_rate == ParseSavingsRate(params[1]["savings_rate_percent"].v)

savings_amount == SavingsAmount(salary, savings_rate)

regular_payment == RegularPayment(salary, fixed_expenses, savings_amount)

one_time_payments == ParseOneTimePayments(params[1]["one_time_payments"].items)

ErrorMessage(error) == [status |-> "error", error |-> error]

\* the answer to a failed extraction always lists the same five names
ExtractionFailedMessage ==
    [ status |-> "error", error |-> "parameter_extraction_failed",
      required |-> << "salary", "fixed_expenses", "debt_amount",
                      "interest_rate", "months" >> ]

SuccessMessage == [status |-> "success", error |-> ""]

Init ==
    /\ pc = "extract"
    /\ history = None
    /\ llm_output = None
    /\ previous_params = None
    /\ params = None
    /\ month = 0
    /\ balance = 0
    /\ total_interest = 0
    /\ total_saved = 0
    /\ total_regular = 0
    /\ total_one_time = 0
    /\ monthly_rows = <<>>
    /\ plan = None
    /\ validation_errors = None
    /\ store = <<>>
    /\ store_calls = 0
    /\ messages = <<>>
    /\ node = "finance_debt_payoff_executor"
    /\ assistant_type = "finance"
    /\ enabled_memory_types = FinanceMemoryTypes
    /\ state_messages = DebtTurn
    /\ visited = << "main_assistant", "router" >>
    /\ namespace_docs = {}

\* _extract_parameters parses the answer, merges, applies the defaults and
\* checks the required keys; without them the executor answers with an error
ExtractParameters ==
    /\ pc = "extract"
    /\ UNCHANGED graphVars
    /\ \E c \in ExtractionCases :
          LET previous == FindPreviousParameters(c.history)
              merged == WithDefaults(MergePrevious(c.output, previous))
          IN  /\ history' = Some(c.history)
              /\ llm_output' = Some(c.output)
              /\ previous_params' = Some(previous)
              /\ IF RequiredPresent(merged)
                 THEN /\ params' = Some(merged)
                      /\ pc' = "calculate"
                      /\ UNCHANGED messages
                 ELSE /\ params' = None
                      /\ pc' = "done"
                      /\ messages' = Append(messages, ExtractionFailedMessage)
    /\ UNCHANGED << loopVars, plan, validation_errors, store, store_calls >>

\* the model call or json.loads raises: _extract_parameters returns None
ExtractionFails ==
    /\ pc = "extract"
    /\ UNCHANGED graphVars
    /\ \E h \in Histories :
          /\ history' = Some(h)
          /\ previous_params' = Some(FindPreviousParameters(h))
    /\ messages' = Append(messages, ExtractionFailedMessage)
    /\ pc' = "done"
    /\ UNCHANGED << llm_output, params, loopVars, plan, validation_errors,
                    store, store_calls >>

\* the except clause of the executor: one error message, nothing stored
Raise ==
    /\ messages' = Append(messages, ErrorMessage("exception"))
    /\ pc' = "done"
    /\ UNCHANGED << history, llm_output, previous_params, params, plan,
                    validation_errors, store, store_calls >>

\* the parameters are parsed, the one-time payments built, the loop set up
CalcStart ==
    /\ pc = "calculate"
    /\ UNCHANGED graphVars
    /\ IF ParseRaises(params[1]) \/ OneTimePaymentRejected(one_time_payments)
       THEN Raise /\ UNCHANGED loopVars
       ELSE /\ pc' = "loop"
            /\ month' = 0
            /\ balance' = initial_debt
            /\ total_interest' = 0
            /\ total_saved' = 0
            /\ total_regular' = 0
            /\ total_one_time' = 0
            /\ monthly_rows' = <<>>
            /\ UNCHANGED << history, llm_output, previous_params, params, plan,
                            validation_errors, store, store_calls,
                            messages >>

\* rows numbered from 0
MonthlyPaymentRowFromZero(m, step) ==
    [ month |-> m - 1,
      salary |-> salary,
      fixed_expenses |-> fixed_expenses,
      savings_amount |-> savings_amount,
      debt_payment |-> step.regular,
      one_time_payment |-> step.one_time,
      total_payment |-> step.total,
      interest_charged |-> step.interest,
      remaining_balance |-> step.new_balance ]

MonthlyPaymentRow(m, step) ==
    [ month |-> m,
      salary |-> salary,
      fixed_expenses |-> fixed_expenses,
      savings_amount |-> savings_amount,
      debt_payment |-> step.regular,
      one_time_payment |-> step.one_time,
      total_payment |-> step.total,
      interest_charged |-> step.interest,
      remaining_balance |-> step.new_balance ]

\* a plan that records months_to_payoff as the horizon
FinanceDebtPlanHorizon(rows, final, saved, interest, regular, one_time, cleared, payoff, recommended) ==
    [ salary |-> salary,
      fixed_expenses |-> fixed_expenses,
      initial_debt |-> initial_debt,
      monthly_interest_rate |-> monthly_rate,
      months |-> months,
      savings_rate |-> savings_rate,
      one_time_payments |-> one_time_payments,
      monthly_rows |-> rows,
      final_balance |-> final,
      total_saved |-> saved,
      total_interest_paid |-> interest,
      total_regular_payments |-> regular,
      total_one_time_payments |-> one_time,
      is_debt_cleared |-> cleared,
      months_to_payoff |-> Some(months),
      recommended_payment |-> recommended ]

FinanceDebtPlan(rows, final, saved, interest, regular, one_time, cleared, payoff, recommended) ==
    [ salary |-> salary,
      fixed_expenses |-> fixed_expenses,
      initial_debt |-> initial_debt,
      monthly_interest_rate |-> monthly_rate,
      months |-> months,
      savings_rate |-> savings_rate,
      one_time_payments |-> one_time_payments,
      monthly_rows |-> rows,
      final_balance |-> final,
      total_saved |-> saved,
      total_interest_paid |-> interest,
      total_regular_payments |-> regular,
      total_one_time_payments |-> one_time,
      is_debt_cleared |-> cleared,
      months_to_payoff |-> payoff,
      recommended_payment |-> recommended ]

\* a stop condition that misses a balance of exactly zero
DebtClearedBelowZero(new_balance) == new_balance < 0

\* the loop's stop condition, tested after the row is stored
DebtCleared(new_balance) == new_balance <= 0

\* a validation whose result is not looked at
ValidationIgnored(errors) == TRUE

\* "if validation_errors:" is false: the plan goes on to the store
ValidationPassed(errors) == errors = <<>>

FieldsValid ==
    PlanFieldsValid(salary, fixed_expenses, initial_debt, monthly_rate,
                    months, savings_rate)

\* one iteration of the loop; a balance <= 0 ends the calculation
CalcMonth ==
    /\ pc = "loop"
    /\ UNCHANGED graphVars
    /\ month < months
    /\ LET m == month + 1
           step == MonthStep(balance, m, monthly_rate, regular_payment,
                             one_time_payments)
           rows == Append(monthly_rows, MonthlyPaymentRow(m, step))
           interest == Round2(total_interest + step.interest, 1)
           saved == Round2(total_saved + savings_amount, 1)
           regular == Round2(total_regular + step.regular, 1)
           one_time == Round2(total_one_time + step.one_time, 1)
       IN  /\ month' = m
           /\ balance' = step.new_balance
           /\ total_interest' = interest
           /\ total_saved' = saved
           /\ total_regular' = regular
           /\ total_one_time' = one_time
           /\ monthly_rows' = rows
           /\ IF DebtCleared(step.new_balance)
              THEN IF FieldsValid
                   THEN /\ plan' = Some(FinanceDebtPlan(rows, 0, saved,
                                            interest, regular, one_time,
                                            TRUE, Some(m), None))
                        /\ pc' = "validate"
                        /\ UNCHANGED << history, llm_output, previous_params, params,
                                        validation_errors, store,
                                        store_calls, messages >>
                   ELSE Raise
              ELSE /\ pc' = "loop"
                   /\ UNCHANGED << history, llm_output, previous_params, params, plan,
                                   validation_errors, store,
                                   store_calls, messages >>

\* the loop ran out of months: the solver recommends a payment
CalcNotCleared ==
    /\ pc = "loop"
    /\ UNCHANGED graphVars
    /\ month >= months
    /\ IF RequiredPaymentRaises(monthly_rate, months) \/ ~FieldsValid
       THEN Raise
       ELSE /\ plan' = Some(FinanceDebtPlan(monthly_rows, balance,
                                total_saved, total_interest, total_regular,
                                total_one_time, FALSE, None,
                                Some(CalcRequiredPayment(initial_debt,
                                        monthly_rate, months,
                                        TotalBonus(one_time_payments)))))
            /\ pc' = "validate"
            /\ UNCHANGED << history, llm_output, previous_params, params,
                            validation_errors, store, store_calls,
                            messages >>
    /\ UNCHANGED loopVars

\* _validate_plan; any violation ends the run with an error message
Validate ==
    /\ pc = "validate"
    /\ UNCHANGED graphVars
    /\ LET errors == ValidatePlan(plan[1])
       IN  /\ validation_errors' = Some(errors)
           /\ IF ValidationPassed(errors)
              THEN /\ pc' = "store"
                   /\ UNCHANGED messages
              ELSE /\ messages' = Append(messages,
                                         ErrorMessage("validation_failed"))
                   /\ pc' = "done"
    /\ UNCHANGED << history, llm_output, previous_params, params, loopVars, plan,
                    store, store_calls >>

\* a _store_plan that lets the failure of store.put reach the except clause
StorePlanPropagates ==
    /\ pc = "store"
    /\ UNCHANGED graphVars
    /\ store_calls' = store_calls + 1
    /\ \E put_ok \in BOOLEAN :
          /\ store' = IF put_ok THEN Append(store, plan[1]) ELSE store
          /\ messages' = Append(messages,
                                IF put_ok THEN SuccessMessage
                                ELSE ErrorMessage("exception"))
    /\ pc' = "done"
    /\ UNCHANGED << history, llm_output, previous_params, params, loopVars,
                    plan, validation_errors >>

\* _store_plan, whose store.put may fail (the failure is only printed),
\* then the success message
StorePlan ==
    /\ pc = "store"
    /\ UNCHANGED graphVars
    /\ store_calls' = store_calls + 1
    /\ \E put_ok \in BOOLEAN :
          store' = IF put_ok THEN Append(store, plan[1]) ELSE store
    /\ messages' = Append(messages, SuccessMessage)
    /\ pc' = "done"
    /\ UNCHANGED << history, llm_output, previous_params, params, loopVars, plan,
                    validation_errors >>

Next ==
    \/ ExtractParameters
    \/ ExtractionFails
    \/ CalcStart
    \/ CalcMonth
    \/ CalcNotCleared
    \/ Validate
    \/ StorePlan

Spec == Init /\ [][Next]_vars

\* ------------------------------------------------------------------------
\* Properties
\* ------------------------------------------------------------------------

HasPlan == plan # None

ThePlan == plan[1]

PlanRows == ThePlan.monthly_rows

LastPlanRow == PlanRows[Len(PlanRows)]

\* regular_payment + one_time: the payment a month asks for before any clamp
NominalPayment(m) == regular_payment + OneTimeByMonth(one_time_payments, m)

\* the early-payoff clamp fired in this row
ClampFired(row) ==
    row.remaining_balance = 0 /\ row.total_payment < NominalPayment(row.month)

RECURSIVE SumDebtPayment(_)
SumDebtPayment(rows) ==
    IF rows = <<>> THEN 0
    ELSE Head(rows).debt_payment + SumDebtPayment(Tail(rows))

RECURSIVE SumOneTimePayment(_)
SumOneTimePayment(rows) ==
    IF rows = <<>> THEN 0
    ELSE Head(rows).one_time_payment + SumOneTimePayment(Tail(rows))

RECURSIVE SumTotalPayment(_)
SumTotalPayment(rows) ==
    IF rows = <<>> THEN 0
    ELSE Head(rows).total_payment + SumTotalPayment(Tail(rows))

\* C1: no row of a returned plan, and no row stored while the loop runs,
\* reports a remaining balance below zero.
C1_BalanceNeverNegative ==
    /\ \A i \in 1..Len(monthly_rows) : monthly_rows[i].remaining_balance >= 0
    /\ HasPlan => \A i \in 1..Len(PlanRows) : PlanRows[i].remaining_balance >= 0

\* a plan whose last month would have overshot and was clamped to zero
C1_Witness ==
    /\ HasPlan
    /\ ClampFired(LastPlanRow)
    /\ LastPlanRow.remaining_balance = 0

\* the last stored row left a balance <= 0
PaidOff ==
    /\ monthly_rows # <<>>
    /\ monthly_rows[Len(monthly_rows)].remaining_balance <= 0

\* the returned plan is cleared in the month of the last stored row and has
\* no row beyond it
ClearedAtLastRow ==
    /\ ThePlan.is_debt_cleared
    /\ ThePlan.months_to_payoff = Some(month)
    /\ PlanRows = monthly_rows
    /\ Len(PlanRows) = month
    /\ \A i \in 1..Len(PlanRows) : PlanRows[i].month <= month

\* C2: once a stored row leaves a balance <= 0 the loop has stopped: no
\* later month is ever simulated, and a returned plan is marked cleared with
\* months_to_payoff = that month and no row beyond it.
C2_LoopStopsAtPayoff ==
    [][ /\ PaidOff => monthly_rows' = monthly_rows /\ month' = month
        /\ PaidOff' => pc' # "loop"
        /\ PaidOff' /\ HasPlan' => ClearedAtLastRow' ]_vars

\* a plan cleared before the last month of its horizon
C2_Witness ==
    /\ HasPlan
    /\ ThePlan.is_debt_cleared
    /\ ThePlan.months_to_payoff # None
    /\ ThePlan.months_to_payoff[1] < ThePlan.months
    /\ pc = "done"

\* C3: in every returned plan initial_debt + total_interest_paid equals
\* total_regular_payments + total_one_time_payments + final_balance within
\* 0.02.
C3_Conservation ==
    HasPlan =>
        Abs(ThePlan.initial_debt + ThePlan.total_interest_paid
            - (ThePlan.total_regular_payments
               + ThePlan.total_one_time_payments
               + ThePlan.final_balance)) <= 20

\* a plan clamped in a month with a one-time payment smaller than the
\* overshoot, so that the regular payment was cut too
C3_Witness ==
    /\ HasPlan
    /\ ClampFired(LastPlanRow)
    /\ OneTimeByMonth(one_time_payments, LastPlanRow.month) > 0
    /\ LastPlanRow.debt_payment < regular_payment
    /\ ThePlan.total_interest_paid > 0

\* C4: a cleared plan has months_to_payoff set, a last row at exactly 0 and
\* no recommended_payment; a plan not cleared has no months_to_payoff and a
\* recommended_payment (the solver's result).
C4_ClearedOrRecommended ==
    HasPlan =>
        IF ThePlan.is_debt_cleared
        THEN /\ ThePlan.months_to_payoff # None
             /\ LastPlanRow.remaining_balance = 0
             /\ ThePlan.recommended_payment = None
        ELSE /\ ThePlan.months_to_payoff = None
             /\ ThePlan.recommended_payment # None
             /\ ThePlan.recommended_payment[1]
                  = CalcRequiredPayment(ThePlan.initial_debt,
                        ThePlan.monthly_interest_rate, ThePlan.months,
                        TotalBonus(ThePlan.one_time_payments))

\* a plan not cleared after all its months, with a payment recommended
C4_Witness ==
    /\ HasPlan
    /\ ~ThePlan.is_debt_cleared
    /\ ThePlan.final_balance > 0
    /\ ThePlan.recommended_payment # None
    /\ Len(PlanRows) = ThePlan.months

\* C5: the rows of a plan are the months 1, 2, .., n in order, with n =
\* months_to_payoff for a cleared plan and n = months otherwise; n <= months.
C5_RowsAreMonthsInOrder ==
    /\ \A i \in 1..Len(monthly_rows) : monthly_rows[i].month = i
    /\ HasPlan =>
         /\ \A i \in 1..Len(PlanRows) : PlanRows[i].month = i
         /\ Len(PlanRows) <= ThePlan.months
         /\ Len(PlanRows) = IF ThePlan.is_debt_cleared
                            THEN ThePlan.months_to_payoff[1]
                            ELSE ThePlan.months

\* a cleared plan of at least two rows that stops short of its horizon
C5_Witness ==
    /\ HasPlan
    /\ ThePlan.is_debt_cleared
    /\ Len(PlanRows) >= 2
    /\ Len(PlanRows) < ThePlan.months

\* C6: the plan totals are the sums over the rows: regular payments, one-time
\* payments (as adjusted in a clamped month), and the rows' total_payment
\* sums to the two together within 0.02.
C6_TotalsAreRowSums ==
    HasPlan =>
        /\ ThePlan.total_regular_payments = SumDebtPayment(PlanRows)
        /\ ThePlan.total_one_time_payments = SumOneTimePayment(PlanRows)
        /\ Abs(SumTotalPayment(PlanRows)
               - (ThePlan.total_regular_payments
                  + ThePlan.total_one_time_payments)) <= 20

\* a plan clamped in a month whose one-time payment was cut but not used up
C6_Witness ==
    /\ HasPlan
    /\ Len(PlanRows) >= 2
    /\ ClampFired(LastPlanRow)
    /\ LastPlanRow.one_time_payment > 0
    /\ LastPlanRow.one_time_payment
         < OneTimeByMonth(one_time_payments, LastPlanRow.month)

IsScenario(p) ==
    params # None /\ \A k \in DOMAIN p : params[1][k] = Dict(p)[k]

\* C7 as stated: scenario B is clamped to 0.00 in month 3 and cleared with
\* months_to_payoff = 3.
C7_AsStated ==
    IsScenario(ScenarioB) /\ HasPlan =>
        /\ PlanRows[3].remaining_balance = 0
        /\ ThePlan.is_debt_cleared
        /\ ThePlan.months_to_payoff = Some(3)

\* C7: in scenario B the 5000 of month 3 does not overshoot: month 3 ends at
\* 6388.25 unclamped, and the clamp fires in month 6, where the regular
\* payment is cut to 29.89, the balance is exactly 0.00, is_debt_cleared is
\* true and months_to_payoff = 6.
C7_ScenarioB ==
    IsScenario(ScenarioB) /\ HasPlan =>
        /\ PlanRows[3].remaining_balance = 6388250
        /\ PlanRows[3].one_time_payment = 5000000
        /\ PlanRows[3].total_payment = 8300000
        /\ Len(PlanRows) = 6
        /\ PlanRows[6].debt_payment = 29890
        /\ PlanRows[6].remaining_balance = 0
        /\ ThePlan.is_debt_cleared
        /\ ThePlan.months_to_payoff = Some(6)

\* the plan of scenario B has been returned
C7_Witness == IsScenario(ScenarioB) /\ HasPlan /\ Len(PlanRows) >= 3

\* C8 as stated: whenever the debt is not cleared and final_balance > 0, the
\* recommended payment is strictly greater than the regular payment.
C8_AsStated ==
    HasPlan /\ ~ThePlan.is_debt_cleared /\ ThePlan.final_balance > 0 =>
        ThePlan.recommended_payment[1] > regular_payment

\* C8: when no one-time payment is listed and the debt is not cleared with
\* final_balance > 0, the recommended payment is at least the regular
\* payment; in scenario A the loop runs all 6 months, leaves 2114.34 and
\* recommends 3631.00, strictly more than the regular 3300.00.
C8_RecommendedAtLeastRegular ==
    /\ ( /\ HasPlan
         /\ ~ThePlan.is_debt_cleared
         /\ ThePlan.final_balance > 0
         /\ ThePlan.one_time_payments = <<>>
         => ThePlan.recommended_payment[1] >= regular_payment )
    /\ ( IsScenario(ScenarioA) /\ HasPlan =>
           /\ ~ThePlan.is_debt_cleared
           /\ Len(PlanRows) = 6
           /\ ThePlan.final_balance = 2114340
           /\ regular_payment = 3300000
           /\ ThePlan.recommended_payment = Some(3631000) )

\* the plan of scenario A has been returned, not cleared
C8_Witness ==
    /\ IsScenario(ScenarioA)
    /\ HasPlan
    /\ ~ThePlan.is_debt_cleared
    /\ ThePlan.final_balance > 0

\* C9: for a plan with salary - fixed_expenses - savings <= 0 the validator
\* returns exactly the one "no cash" violation, whatever else is wrong.
C9_NoCashOnly ==
    /\ validation_errors # None
    /\ Round2(ThePlan.salary - ThePlan.fixed_expenses
              - MulRound2(ThePlan.salary, ThePlan.savings_rate, 10000), 1) <= 0
    => validation_errors = Some(<< NoCashError >>)

\* a validated plan without cash that also lists a one-time payment past
\* its horizon
C9_Witness ==
    /\ validation_errors = Some(<< NoCashError >>)
    /\ regular_payment <= 0
    /\ \E i \in 1..Len(one_time_payments) :
          one_time_payments[i].month > months

HasErrorMessage ==
    \E i \in 1..Len(messages) : messages[i].status = "error"

\* C10: _store_plan is called at most once in a run, and only on a plan for
\* which _validate_plan returned no violation; a run that answers with an
\* error (extraction failed, validation failed, exception) stores nothing.
C10_StoreOnlyValidated ==
    /\ store_calls <= 1
    /\ Len(store) <= store_calls
    /\ store_calls > 0 =>
         /\ HasPlan
         /\ validation_errors = Some(<<>>)
         /\ ValidatePlan(ThePlan) = <<>>
    /\ \A i \in 1..Len(store) : store[i] = ThePlan
    /\ HasErrorMessage => store = <<>> /\ store_calls = 0

\* a run that stored its validated plan
C10_Witness ==
    /\ pc = "done"
    /\ store_calls = 1
    /\ Len(store) = 1
    /\ validation_errors = Some(<<>>)

\* the parameter mapping after the merge and the defaults
Merged == WithDefaults(MergePrevious(llm_output[1], previous_params[1]))

MissingKeys == RequiredKeys \ DOMAIN Merged

MalformedValue ==
    \/ \E k \in {"salary", "fixed_expenses", "debt_amount",
                 "interest_rate_percent", "months", "savings_rate_percent"} :
          params[1][k].kind # "num"
    \/ params[1]["one_time_payments"].kind \in {"null", "num"}
    \/ \E i \in 1..Len(params[1]["one_time_payments"].items) :
          LET entry == params[1]["one_time_payments"].items[i]
          IN  {"month", "amount", "malformed"} \subseteq DOMAIN entry

\* C12: a run answers with at most one tool message and ends exactly when
\* it has answered, with status success or error; a mapping with a
\* malformed value ends in one error message, no plan and nothing stored,
\* and so does a failed validation;
\* a failure of store.put is not answered with an error: the run still
\* ends with the success message.
C12_OneMessagePerRun ==
    /\ Len(messages) <= 1
    /\ (pc = "done") <=> (Len(messages) = 1)
    /\ \A i \in 1..Len(messages) : messages[i].status \in {"success", "error"}
    /\ params # None /\ pc # "calculate" /\ MalformedValue =>
          /\ pc = "done"
          /\ messages = << [status |-> "error", error |-> "exception"] >>
          /\ plan = None
          /\ store_calls = 0
    /\ pc = "done" /\ validation_errors # None
          /\ validation_errors # Some(<<>>) =>
          /\ messages = << [status |-> "error", error |-> "validation_failed"] >>
          /\ store_calls = 0
    /\ pc = "done" /\ store_calls > Len(store) =>
          messages = << [status |-> "success", error |-> ""] >>

\* a mapping whose salary is null passed the required-key check and the run
\* ended with the error of the except clause
C12_Witness ==
    /\ pc = "done"
    /\ params # None
    /\ params[1]["salary"].kind = "null"
    /\ messages = << ErrorMessage("exception") >>

\* C12 as the specification words it: an error raised while storing ends
\* the run with an error message
C12_AsStated ==
    pc = "done" /\ store_calls > Len(store) =>
        \E i \in 1..Len(messages) : messages[i].status = "error"

\* a well-formed parameter breaks a documented range
RangeViolated ==
    /\ params # None
    /\ ~MalformedValue
    /\ \/ params[1]["salary"].v <= 0
       \/ params[1]["fixed_expenses"].v <= 0
       \/ params[1]["debt_amount"].v <= 0
       \/ params[1]["interest_rate_percent"].v < 0
       \/ params[1]["months"].v <= 0
       \/ params[1]["savings_rate_percent"].v < 0
       \/ params[1]["savings_rate_percent"].v > 100000
       \/ \E i \in 1..Len(params[1]["one_time_payments"].items) :
             LET entry == params[1]["one_time_payments"].items[i]
             IN  /\ HasMonthAndAmount(entry)
                 /\ entry.month <= 0 \/ entry.amount <= 0

\* C13: parameters that break a documented range never lead to a success
\* message nor to a stored plan.
C13_AsStated ==
    RangeViolated =>
        /\ \A i \in 1..Len(messages) : messages[i].status # "success"
        /\ store = <<>>

\* the calculation has returned or raised
CalculationOver == pc \in {"validate", "store", "done"}

\* the parsed and rounded values are inside the ranges of the schemas
InRangeAfterRounding ==
    /\ params # None
    /\ ~MalformedValue
    /\ Round2(params[1]["salary"].v, 1) > 0
    /\ Round2(params[1]["fixed_expenses"].v, 1) > 0
    /\ Round2(params[1]["debt_amount"].v, 1) > 0
    /\ RoundHalfEven(params[1]["interest_rate_percent"].v, 10) >= 0
    /\ RoundHalfEven(params[1]["interest_rate_percent"].v, 10) <= 1000000
    /\ params[1]["months"].v > 0
    /\ RoundHalfEven(params[1]["savings_rate_percent"].v, 10) >= 0
    /\ RoundHalfEven(params[1]["savings_rate_percent"].v, 10) <= 10000
    /\ \A i \in 1..Len(params[1]["one_time_payments"].items) :
          LET entry == params[1]["one_time_payments"].items[i]
          IN  {"month", "amount"} \subseteq DOMAIN entry =>
                  entry.month > 0 /\ Round2(entry.amount, 1) > 0

\* C14: for parameters whose rounded values are inside the ranges of the
\* schemas (salary, fixed expenses and debt > 0 in cents, monthly rate
\* within 0..100 %, months > 0, savings rate within 0..100 %, one-time
\* payments with month > 0 and amount > 0 in cents) the calculation runs at
\* most `months` iterations and returns a plan without raising; a monthly
\* rate above 100 % makes it raise, and no plan is returned.
C14_InRangeReturnsPlan ==
    /\ InRangeAfterRounding =>
          /\ month <= params[1]["months"].v
          /\ \A i \in 1..Len(messages) : messages[i].error # "exception"
          /\ CalculationOver => HasPlan
    /\ /\ params # None
       /\ ~MalformedValue
       /\ RoundHalfEven(params[1]["interest_rate_percent"].v, 10) > 1000000
       /\ CalculationOver
       => plan = None /\ messages = << [status |-> "error", error |-> "exception"] >>

\* a plan was returned for a monthly rate of exactly 100 %
C14_Witness ==
    /\ InRangeAfterRounding
    /\ params[1]["interest_rate_percent"].v = 10000000
    /\ CalculationOver
    /\ HasPlan

\* C14 as the specification words it: raw parameters inside the documented
\* ranges, with no upper bound on the rate, always give a plan
C14_AsStated ==
    /\ params # None
    /\ ~MalformedValue
    /\ params[1]["salary"].v > 0
    /\ params[1]["fixed_expenses"].v > 0
    /\ params[1]["debt_amount"].v > 0
    /\ params[1]["interest_rate_percent"].v >= 0
    /\ params[1]["months"].v > 0
    /\ params[1]["savings_rate_percent"].v >= 0
    /\ params[1]["savings_rate_percent"].v <= 100000
    /\ \A i \in 1..Len(params[1]["one_time_payments"].items) :
          LET entry == params[1]["one_time_payments"].items[i]
          IN  /\ {"month", "amount"} \subseteq DOMAIN entry
              /\ entry.month \in 1..params[1]["months"].v
              /\ entry.amount > 0
    /\ CalculationOver
    => HasPlan

WholeCents(x) == x % 10 = 0

RowInCents(row) ==
    /\ WholeCents(row.salary)
    /\ WholeCents(row.fixed_expenses)
    /\ WholeCents(row.savings_amount)
    /\ WholeCents(row.debt_payment)
    /\ WholeCents(row.one_time_payment)
    /\ WholeCents(row.total_payment)
    /\ WholeCents(row.interest_charged)
    /\ WholeCents(row.remaining_balance)

\* C15: every monetary field of every monthly row, stored by the loop or
\* returned in a plan, is a whole number of cents, clamped rows included.
C15_RowsInCents ==
    /\ \A i \in 1..Len(monthly_rows) : RowInCents(monthly_rows[i])
    /\ HasPlan => \A i \in 1..Len(PlanRows) : RowInCents(PlanRows[i])

\* a plan from a salary given with more than two decimals (50.004), whose
\* last row is clamped with a regular payment that was cut
C15_Witness ==
    /\ HasPlan
    /\ ~WholeCents(params[1]["salary"].v)
    /\ ClampFired(LastPlanRow)
    /\ LastPlanRow.debt_payment < regular_payment

\* the balance a row starts from
PreviousBalance(i) ==
    IF i = 1 THEN Round2(params[1]["debt_amount"].v, 1)
    ELSE monthly_rows[i - 1].remaining_balance

\* C16: in every row where the clamp does not fire, interest_charged is the
\* previous balance times the monthly rate, rounded to cents, and
\* remaining_balance is previous balance + interest - total_payment; the
\* previous balance is the initial debt for month 1 and the remaining
\* balance of the row before afterwards.  Scenario A starts with interest
\* 500.00, payment 3300.00 and balance 17200.00.
C16_InterestThenBalance ==
    /\ \A i \in 1..Len(monthly_rows) :
          LET row == monthly_rows[i]
          IN  ~ClampFired(row) =>
                /\ row.interest_charged =
                     MulRound2(PreviousBalance(i),
                               RoundHalfEven(
                                   params[1]["interest_rate_percent"].v, 10),
                               1000000)
                /\ row.remaining_balance =
                     PreviousBalance(i) + row.interest_charged
                         - row.total_payment
    /\ IsScenario(ScenarioA) /\ monthly_rows # <<>> =>
          /\ monthly_rows[1].interest_charged = 500000
          /\ monthly_rows[1].debt_payment = 3300000
          /\ monthly_rows[1].total_payment = 3300000
          /\ monthly_rows[1].remaining_balance = 17200000

\* scenario A has stored its second row, unclamped and with interest
C16_Witness ==
    /\ IsScenario(ScenarioA)
    /\ Len(monthly_rows) >= 2
    /\ ~ClampFired(monthly_rows[2])
    /\ monthly_rows[2].interest_charged = 430000

\* C17: in the row of a returned plan where the clamp fires, total_payment
\* is exactly the previous balance plus the interest of the month,
\* debt_payment and one_time_payment sum to it, remaining_balance is 0 and
\* one_time_payment is >= 0; debt_payment is >= 0 whenever the regular
\* payment is, and is the negative regular payment itself when salary -
\* fixed_expenses - savings is negative and a one-time payment absorbs the
\* whole overshoot.
C17_ClampedRow ==
    HasPlan /\ PlanRows = monthly_rows =>
    \A i \in 1..Len(PlanRows) :
        LET row == PlanRows[i]
            regular ==
                Round2(params[1]["salary"].v, 1)
                - Round2(params[1]["fixed_expenses"].v, 1)
                - row.savings_amount
        IN  ClampFired(row) =>
              /\ row.total_payment = PreviousBalance(i) + row.interest_charged
              /\ row.debt_payment + row.one_time_payment = row.total_payment
              /\ row.remaining_balance = 0
              /\ row.one_time_payment >= 0
              /\ regular >= 0 => row.debt_payment >= 0
              /\ regular < 0 => row.debt_payment = regular

\* a clamped row of a run whose regular payment is negative
C17_Witness ==
    /\ HasPlan
    /\ PlanRows = monthly_rows
    /\ ClampFired(LastPlanRow)
    /\ LastPlanRow.debt_payment < 0
    /\ LastPlanRow.total_payment =
         PreviousBalance(Len(PlanRows)) + LastPlanRow.interest_charged

\* C17 as the specification words it: both parts of a clamped payment are
\* >= 0
C17_AsStated ==
    HasPlan =>
        \A i \in 1..Len(PlanRows) :
            ClampFired(PlanRows[i]) =>
                /\ PlanRows[i].debt_payment >= 0
                /\ PlanRows[i].one_time_payment >= 0

\* the parsed one-time entries of the request, the skipped ones left out
ListedPayments ==
    SelectSeq(params[1]["one_time_payments"].items,
              LAMBDA entry : {"month", "amount"} \subseteq DOMAIN entry)

\* the amount scheduled for a month: that of the last entry listed for it
Scheduled(m) ==
    LET listed == { i \in 1..Len(ListedPayments) :
                      ListedPayments[i].month = m }
    IN  IF listed = {} THEN 0
        ELSE Round2(ListedPayments[
                 CHOOSE i \in listed : \A j \in listed : j <= i].amount, 1)

\* salary - fixed_expenses - round(salary * savings_rate, 2)
FixedRegular ==
    Round2(params[1]["salary"].v, 1)
    - Round2(params[1]["fixed_expenses"].v, 1)
    - MulRound2(Round2(params[1]["salary"].v, 1),
                RoundHalfEven(params[1]["savings_rate_percent"].v, 10),
                10000)

\* by how much the nominal payment of a row exceeds what clears the debt
Overshoot(i) ==
    FixedRegular + Scheduled(i)
        - (PreviousBalance(i) + monthly_rows[i].interest_charged)

\* C18: when the clamp fires in a month with a one-time payment and the
\* overshoot is v, the one-time payment is reduced by min(oneTime, v); the
\* regular payment is reduced only if v exceeds the one-time amount, then
\* by v - oneTime with the one-time payment reported as 0; otherwise
\* debt_payment stays the nominal regular payment.
C18_OneTimeAbsorbsFirst ==
    \A i \in 1..Len(monthly_rows) :
        LET row == monthly_rows[i]
            one_time == Scheduled(i)
            v == Overshoot(i)
        IN  row.remaining_balance = 0 /\ v > 0 /\ one_time > 0 =>
              /\ row.one_time_payment = one_time - Min(one_time, v)
              /\ IF v > one_time
                 THEN /\ row.debt_payment = FixedRegular - (v - one_time)
                      /\ row.one_time_payment = 0
                 ELSE row.debt_payment = FixedRegular

\* a clamped row whose one-time payment absorbed the whole overshoot and
\* is still reported with what was left of it
C18_Witness ==
    /\ monthly_rows # <<>>
    /\ Overshoot(Len(monthly_rows)) > 0
    /\ Overshoot(Len(monthly_rows)) < Scheduled(Len(monthly_rows))
    /\ monthly_rows[Len(monthly_rows)].one_time_payment > 0
    /\ monthly_rows[Len(monthly_rows)].debt_payment = FixedRegular
    /\ FixedRegular > 0

\* C19: in every row that is not clamped, debt_payment is salary -
\* fixed_expenses - round(salary * savings_rate, 2) and one_time_payment is
\* the amount scheduled for the month (0 if none); this also holds in every
\* row of a plan that carries a recommended_payment.
C19_RegularPaymentFixed ==
    /\ \A i \in 1..Len(monthly_rows) :
          LET row == monthly_rows[i]
          IN  ~(row.remaining_balance = 0 /\ Overshoot(i) > 0) =>
                /\ row.debt_payment = FixedRegular
                /\ row.one_time_payment = Scheduled(i)
    /\ HasPlan /\ ThePlan.recommended_payment # None =>
          \A i \in 1..Len(PlanRows) :
              /\ PlanRows[i].debt_payment = FixedRegular
              /\ PlanRows[i].one_time_payment = Scheduled(i)

\* a plan that was not cleared recommends more than the regular payment
\* its rows were computed with
C19_Witness ==
    /\ HasPlan
    /\ ThePlan.recommended_payment # None
    /\ Len(PlanRows) >= 2
    /\ FixedRegular > 0
    /\ ThePlan.recommended_payment[1] > FixedRegular
    /\ PlanRows[2].debt_payment = FixedRegular

\* C20: when several one-time payments are listed for the same month, an
\* unclamped row of that month carries the amount of the last listed entry,
\* and the plan echoes every listed entry, in order.
C20_LastEntryWins ==
    /\ \A i \in 1..Len(monthly_rows) :
          LET row == monthly_rows[i]
          IN  row.remaining_balance > 0 =>
                  row.one_time_payment = Scheduled(i)
    /\ HasPlan =>
          /\ Len(ThePlan.one_time_payments) = Len(ListedPayments)
          /\ \A k \in 1..Len(ListedPayments) :
                /\ ThePlan.one_time_payments[k].month = ListedPayments[k].month
                /\ ThePlan.one_time_payments[k].amount =
                     Round2(ListedPayments[k].amount, 1)

\* 80.004 then 10 listed for month 2: the row of month 2 carries 10.00,
\* and the plan echoes both entries
C20_Witness ==
    /\ HasPlan
    /\ Len(ListedPayments) = 2
    /\ ListedPayments[1].month = 2
    /\ ListedPayments[2].month = 2
    /\ ListedPayments[1].amount # ListedPayments[2].amount
    /\ Len(PlanRows) >= 2
    /\ PlanRows[2].remaining_balance > 0
    /\ PlanRows[2].one_time_payment = 10000
    /\ Len(ThePlan.one_time_payments) = 2

\* the listed one-time payments whose month is past the horizon
LatePayments ==
    { k \in 1..Len(ListedPayments) :
        ListedPayments[k].month > params[1]["months"].v }

\* the listed one-time payments whose month is below 1
EarlyPayments ==
    { k \in 1..Len(ListedPayments) : ListedPayments[k].month < 1 }

\* the "Bonus month" entries of a violation list
BonusEntries(errors) ==
    { i \in 1..Len(errors) :
        \E k \in 1..Len(ListedPayments) :
            errors[i] = "Bonus month " \o ToString(ListedPayments[k].month)
                        \o " outside 1-" \o ToString(params[1]["months"].v) }

\* C21: with positive available cash, a returned plan that lists one-time
\* payments for months after the horizon fails validation: the violation
\* list has one "Bonus month" entry per such payment, no row is computed
\* for such a month, the run answers validation_failed and nothing is
\* stored.  A payment with a month below 1 never reaches the validator:
\* the calculation raises, and the run answers with the error of the
\* except clause, without a plan.
C21_LateBonusFailsValidation ==
    /\ /\ HasPlan
       /\ FixedRegular > 0
       /\ LatePayments # {}
       => /\ \A i \in 1..Len(monthly_rows) :
                monthly_rows[i].month <= params[1]["months"].v
          /\ pc # "store"
          /\ store = <<>> /\ store_calls = 0
          /\ validation_errors # None =>
                /\ Cardinality(BonusEntries(validation_errors[1]))
                     = Cardinality(LatePayments)
                /\ pc = "done"
                /\ messages =
                     << [status |-> "error", error |-> "validation_failed"] >>
    /\ /\ params # None
       /\ ~MalformedValue
       /\ EarlyPayments # {}
       /\ CalculationOver
       => /\ plan = None
          /\ validation_errors = None
          /\ messages = << [status |-> "error", error |-> "exception"] >>
          /\ store = <<>>

\* a run that listed two payments after the horizon ended with the two
\* violations
C21_Witness ==
    /\ pc = "done"
    /\ HasPlan
    /\ FixedRegular > 0
    /\ Cardinality(LatePayments) = 2
    /\ validation_errors # None
    /\ Len(validation_errors[1]) = 2

\* C21 as the specification words it: any one-time payment with a month
\* outside 1..months, in a request that is otherwise in range, ends in a
\* validation failure
C21_AsStated ==
    /\ params # None
    /\ ~MalformedValue
    /\ Round2(params[1]["salary"].v, 1) > 0
    /\ Round2(params[1]["fixed_expenses"].v, 1) > 0
    /\ Round2(params[1]["debt_amount"].v, 1) > 0
    /\ RoundHalfEven(params[1]["interest_rate_percent"].v, 10) \in 0..1000000
    /\ params[1]["months"].v > 0
    /\ RoundHalfEven(params[1]["savings_rate_percent"].v, 10) \in 0..10000
    /\ FixedRegular > 0
    /\ \A k \in 1..Len(ListedPayments) : Round2(ListedPayments[k].amount, 1) > 0
    /\ LatePayments \cup EarlyPayments # {}
    /\ pc = "done"
    => messages = << [status |-> "error", error |-> "validation_failed"] >>

\* the keys that have a default, and their defaults
DefaultOf(k) ==
    CASE k = "savings_rate_percent" -> Num(10000)
      [] k = "currency" -> Str("EGP")
      [] k = "one_time_payments" -> List(<<>>)

\* C22: for every key with a default, the value of the extracted mapping is
\* the newly extracted one if it is present and not null, otherwise the
\* previous value if there is one, otherwise the default.
C22_AsStated ==
    params # None =>
        \A k \in {"savings_rate_percent", "currency", "one_time_payments"} :
            /\ k \in DOMAIN params[1]
            /\ params[1][k] =
                 IF k \in DOMAIN llm_output[1] /\ llm_output[1][k].kind # "null"
                 THEN llm_output[1][k]
                 ELSE IF k \in DOMAIN previous_params[1]
                      THEN previous_params[1][k]
                      ELSE DefaultOf(k)

\* the tool messages of the history with status success and a plan
SuccessIndices ==
    { i \in 1..Len(history[1]) :
        /\ history[1][i].type = "tool"
        /\ history[1][i].json
        /\ history[1][i].status = "success"
        /\ history[1][i].has_plan }

\* the human messages in which debt, rate, salary and expenses are all found
FullTextIndices ==
    { i \in 1..Len(history[1]) :
        /\ history[1][i].type = "human"
        /\ {"salary", "fixed_expenses", "debt_amount",
            "interest_rate_percent"} \subseteq DOMAIN history[1][i].found }

Latest(S) == CHOOSE i \in S : \A j \in S : j <= i

\* C23: if the history holds a tool message with status success and a plan,
\* the fallback is read from the most recent one (the percentages rounded
\* to 2 decimals) and the human messages are ignored; otherwise it is read
\* from the most recent human message in which debt, rate, salary and
\* expenses are all found, with months fixed to 6 and the savings rate to
\* 10 % whether or not the message names a number of months; otherwise the
\* fallback is empty.
C23_FallbackSelection ==
    previous_params # None =>
        LET previous == previous_params[1]
        IN  IF SuccessIndices # {}
            THEN LET dump == history[1][Latest(SuccessIndices)].plan
                 IN  /\ DOMAIN previous =
                          {"salary", "fixed_expenses", "debt_amount",
                           "interest_rate_percent", "months",
                           "savings_rate_percent", "currency"}
                     /\ previous["salary"] =
                          IF "salary" \in DOMAIN dump
                          THEN dump["salary"] ELSE Null
                     /\ previous["fixed_expenses"] = dump["fixed_expenses"]
                     /\ previous["debt_amount"] = dump["initial_debt"]
                     /\ previous["months"] = dump["months"]
                     /\ previous["interest_rate_percent"].v % 1000 = 0
                     /\ Abs(previous["interest_rate_percent"].v
                            - 10 * dump["monthly_interest_rate"].v) <= 500
                     /\ previous["savings_rate_percent"].v
                          = 10 * dump["savings_rate"].v
                     /\ previous["currency"] = Str("EGP")
            ELSE IF FullTextIndices # {}
            THEN LET found == history[1][Latest(FullTextIndices)].found
                 IN  /\ \A k \in DOMAIN found : previous[k] = found[k]
                     /\ previous["months"] = Num(6)
                     /\ previous["savings_rate_percent"] = Num(10000)
                     /\ previous["currency"] = Str("EGP")
            ELSE previous = EmptyDict

\* a successful plan followed by a human message with all four numbers: the
\* fallback is that of the plan
C23_Witness ==
    /\ previous_params = Some(PreviousPlan)
    /\ Len(history[1]) = 2
    /\ SuccessIndices = {1}
    /\ FullTextIndices = {2}

\* C23 as the specification words it: without a successful plan, the text
\* contributes only when a single human message gives every required
\* field, the months among them
C23_AsStated ==
    /\ previous_params # None
    /\ SuccessIndices = {}
    /\ \A i \in FullTextIndices : ~history[1][i].names_months
    => previous_params = Some(EmptyDict)

\* the plan of the most recent successful tool message
PreviousDump == history[1][Latest(SuccessIndices)].plan

\* the key is not in the answer of the model, or null there
Omitted(k) == k \notin DOMAIN llm_output[1] \/ llm_output[1][k].kind = "null"

\* C27: a plan computed with a fallback from the previous successful plan
\* has, for every parameter the follow-up omits, the value of the previous
\* plan: salary, fixed_expenses, initial_debt, savings_rate and
\* monthly_interest_rate.
C27_AsStated ==
    HasPlan /\ SuccessIndices # {} =>
        /\ Omitted("salary") /\ "salary" \in DOMAIN PreviousDump =>
              ThePlan.salary = PreviousDump["salary"].v
        /\ Omitted("fixed_expenses") =>
              ThePlan.fixed_expenses = PreviousDump["fixed_expenses"].v
        /\ Omitted("debt_amount") =>
              ThePlan.initial_debt = PreviousDump["initial_debt"].v
        /\ Omitted("savings_rate_percent") =>
              ThePlan.savings_rate = PreviousDump["savings_rate"].v
        /\ Omitted("interest_rate_percent") =>
              ThePlan.monthly_interest_rate
                  = PreviousDump["monthly_interest_rate"].v

\* C25: a plan computed from parameters with salary - fixed_expenses -
\* savings > 0 and every one-time month within 1..months passes the
\* validator: _validate_plan returns the empty list, for plans with a
\* clamped row and for plans whose balance grows in a month where the
\* payment is below the interest alike.
C25_EngineValidatorAgree ==
    /\ validation_errors # None
    /\ FixedRegular > 0
    /\ LatePayments = {}
    => /\ validation_errors = Some(<<>>)
       /\ pc \in {"store", "done"}
       /\ \A i \in 1..Len(messages) : messages[i].status = "success"

\* a validated plan whose balance grew in month 1 and whose last row is
\* clamped
C25_Witness ==
    /\ validation_errors = Some(<<>>)
    /\ FixedRegular > 0
    /\ Len(PlanRows) >= 2
    /\ PlanRows[1].remaining_balance > ThePlan.initial_debt
    /\ PlanRows[1].total_payment < PlanRows[1].interest_charged
    /\ LastPlanRow.remaining_balance = 0
    /\ Overshoot(Len(PlanRows)) > 0

\* the one-time amounts the simulation schedules in months 1..m
RECURSIVE AppliedBonus(_)
AppliedBonus(m) == IF m <= 0 THEN 0 ELSE Scheduled(m) + AppliedBonus(m - 1)

\* C26: the recommended payment of a plan that is not cleared is the
\* solver's result for the bonus the simulation scheduled: one amount per
\* month, months within 1..months.
C26_AsStated ==
    HasPlan /\ ~ThePlan.is_debt_cleared =>
        ThePlan.recommended_payment =
            Some(CalcRequiredPayment(ThePlan.initial_debt,
                                     ThePlan.monthly_interest_rate,
                                     ThePlan.months,
                                     AppliedBonus(ThePlan.months)))

HasSuccessMessage ==
    \E i \in 1..Len(messages) : messages[i].status = "success"

\* C29: a status-success response implies that _store_plan was called once,
\* on the validated plan; the store then holds that plan, or nothing when
\* store.put failed: the failure is caught inside _store_plan and the run
\* that called it is reported as success all the same.
C29_SuccessAfterStoreCall ==
    /\ HasSuccessMessage =>
          /\ store_calls = 1
          /\ validation_errors = Some(<<>>)
          /\ store = << ThePlan >> \/ store = <<>>
    /\ pc = "done" /\ store_calls = 1 => messages = << SuccessMessage >>

\* a run reported as success whose store.put failed
C29_Witness ==
    /\ pc = "done"
    /\ HasSuccessMessage
    /\ store_calls = 1
    /\ store = <<>>

\* C29 as the specification words it: success implies the plan is in the
\* store
C29_AsStated == HasSuccessMessage => HasPlan /\ store = << ThePlan >>

\* ------------------------------------------------------------------------
\* The graph: main_assistant, router, executors, memory_update

executorVars == << pc, history, llm_output, previous_params, params, month, balance, total_interest, total_saved, total_regular, total_one_time, monthly_rows, plan, validation_errors, store, store_calls, messages >>

INTENT_REGISTRY ==
    [ finance |->
          ("add_transaction" :> "finance_add_transaction_executor")
          @@ ("update_transaction" :> "finance_add_transaction_executor")
          @@ ("monthly_summary" :> "finance_summary_executor")
          @@ ("set_budget" :> "finance_budget_executor")
          @@ ("create_goal" :> "finance_goal_executor")
          @@ ("add_recurring_payment" :> "finance_recurring_executor")
          @@ ("advice" :> "finance_advice_executor")
          @@ ("debt_payoff_plan" :> "finance_debt_payoff_executor")
          @@ ("other" :> "main_assistant"),
      todo |->
          ("add_task" :> "todo_add_task_executor")
          @@ ("update_task" :> "todo_update_task_executor")
          @@ ("task_summary" :> "todo_summary_executor")
          @@ ("update_preferences" :> "todo_preferences_executor")
          @@ ("other" :> "main_assistant") ]

\* INTENT_REGISTRY.get(assistant_type, {}).get(intent)
get_executor_for_intent(type, intent) ==
    IF type \in DOMAIN INTENT_REGISTRY /\ intent \in DOMAIN INTENT_REGISTRY[type]
    THEN Some(INTENT_REGISTRY[type][intent])
    ELSE None

\* the memory types with a schema, per assistant type
SCHEMA_REGISTRY ==
    [ finance |-> FinanceMemoryTypes,
      todo |-> { "profile" } ]

get_schema_for_memory_type(type, memory_type) ==
    type \in DOMAIN SCHEMA_REGISTRY /\ memory_type \in SCHEMA_REGISTRY[type]

\* the nodes create_graph adds
FinanceExecutors ==
    { "finance_add_transaction_executor", "finance_summary_executor",
      "finance_budget_executor", "finance_goal_executor",
      "finance_recurring_executor", "finance_advice_executor",
      "finance_debt_payoff_executor" }

GraphNodes == { "main_assistant", "router", "memory_update" } \cup FinanceExecutors

\* the path map of the router's conditional edges
RouterEdges ==
    [ name \in FinanceExecutors \cup { "memory_update", "main_assistant" } |-> name ]

HasRouteIntent(msg) ==
    \E i \in DOMAIN msg.tool_calls : msg.tool_calls[i].name = "RouteIntent"

\* the first RouteIntent call of a message that has one
RouteIntentCall(msg) ==
    msg.tool_calls[CHOOSE i \in DOMAIN msg.tool_calls :
                      /\ msg.tool_calls[i].name = "RouteIntent"
                      /\ \A j \in 1 .. (i - 1) : msg.tool_calls[j].name # "RouteIntent"]

\* the positions of the messages that carry a RouteIntent call
RouteIntentMessages(msgs) == { i \in DOMAIN msgs : HasRouteIntent(msgs[i]) }

LastOf(S) == CHOOSE i \in S : \A j \in S : j <= i

\* call.get("args", {}).get("intent", "other")
IntentOf(call) == IF call.args = None THEN "other" ELSE call.args[1]

\* the intent of the most recent RouteIntent call of the state
RoutedIntent(msgs) ==
    IntentOf(RouteIntentCall(msgs[LastOf(RouteIntentMessages(msgs))]))

route_to_executor(msgs, type) ==
    IF RouteIntentMessages(msgs) = {}
    THEN "memory_update"
    ELSE LET executor_name == get_executor_for_intent(type, RoutedIntent(msgs))
         IN  IF executor_name # None THEN executor_name[1] ELSE "main_assistant"

should_continue(msgs) ==
    LET last_message == msgs[Len(msgs)]
    IN  IF last_message.type = "ai" /\ HasRouteIntent(last_message)
        THEN "router"
        ELSE END

\* 0 stands for the -1 of the code: no human message
last_human_idx(msgs) ==
    LET humans == { i \in DOMAIN msgs : msgs[i].type = "human" }
    IN  IF humans = {} THEN 0 ELSE LastOf(humans)

route_count_this_turn(msgs) ==
    IF last_human_idx(msgs) = 0
    THEN 0
    ELSE Cardinality({ i \in last_human_idx(msgs) .. Len(msgs) :
                          msgs[i].type = "ai" /\ HasRouteIntent(msgs[i]) })

should_route(msgs) == route_count_this_turn(msgs) = 0

\* what the model may name as the intent: the field is a free string
ModelIntents ==
    DOMAIN INTENT_REGISTRY.finance \cup DOMAIN INTENT_REGISTRY.todo \cup { "weather" }

\* the answers of the model bound to RouteIntent, and of the model without
\* tools (which returns no tool calls)
ResponsesWithTool ==
    { Ai(<<>>), Ai(<< RouteIntent(None) >>) }
    \cup { Ai(<< RouteIntent(Some(intent)) >>) : intent \in ModelIntents }

ResponsesWithoutTools == { Ai(<<>>) }

\* the state a run starts from: a first turn, or a turn after a routed one
InputMessages ==
    { << Human >>,
      << Human, Ai(<< RouteIntent(Some("debt_payoff_plan")) >>), Tool, Ai(<<>>), Human >> }

_get_memory_types_for_intent(intent, enabled) ==
    LET intent_memory_map ==
            ("add_transaction" :> { "finance_transactions" })
            @@ ("update_transaction" :> { "finance_transactions" })
            @@ ("set_budget" :> { "finance_budgets" })
            @@ ("create_goal" :> { "finance_goals" })
            @@ ("add_recurring_payment" :> { "finance_recurring_payments" })
            @@ ("debt_payoff_plan" :> { "finance_debt_plans" })
        memory_types == IF intent \in DOMAIN intent_memory_map
                        THEN intent_memory_map[intent]
                        ELSE {}
    IN  memory_types \cap enabled

\* a value in the namespace: a plan the executor computed and validated, or
\* a FinanceDebtPlan the extractor of memory_update had the model write
ComputedPlan == [origin |-> "_calculate_debt_payoff_plan", validated |-> TRUE]

ExtractedPlan == [origin |-> "extractor", validated |-> FALSE]

\* how a run of finance_debt_payoff_executor can end
ExecutorOutcomes ==
    { "parameter_extraction_failed", "exception", "validation_failed",
      "success", "success_put_failed" }

GraphInit ==
    /\ pc = "extract"
    /\ history = None
    /\ llm_output = None
    /\ previous_params = None
    /\ params = None
    /\ month = 0
    /\ balance = 0
    /\ total_interest = 0
    /\ total_saved = 0
    /\ total_regular = 0
    /\ total_one_time = 0
    /\ monthly_rows = <<>>
    /\ plan = None
    /\ validation_errors = None
    /\ store = <<>>
    /\ store_calls = 0
    /\ messages = <<>>
    /\ node = "main_assistant"
    /\ assistant_type \in { "finance", "todo" }
    /\ enabled_memory_types \in { DefaultMemoryTypes, FinanceMemoryTypes }
    /\ state_messages \in InputMessages
    /\ visited = <<>>
    /\ namespace_docs = {}

\* main_assistant answers with RouteIntent bound only when the turn has no
\* RouteIntent call yet; should_continue then picks the router or END
MainAssistant ==
    /\ node = "main_assistant"
    /\ \E response \in IF should_route(state_messages)
                       THEN ResponsesWithTool
                       ELSE ResponsesWithoutTools :
          /\ state_messages' = Append(state_messages, response)
          /\ node' = should_continue(Append(state_messages, response))
    /\ visited' = Append(visited, node)
    /\ UNCHANGED << assistant_type, enabled_memory_types, namespace_docs, executorVars >>

\* the router changes nothing; its conditional edge looks the result of
\* route_to_executor up in the path map
Router ==
    /\ node = "router"
    /\ LET target == route_to_executor(state_messages, assistant_type)
       IN  node' = IF target \in DOMAIN RouterEdges THEN RouterEdges[target] ELSE KeyError
    /\ visited' = Append(visited, node)
    /\ UNCHANGED << assistant_type, enabled_memory_types, state_messages, namespace_docs, executorVars >>

\* finance_debt_payoff_executor as one step of the graph: it answers with a
\* tool message and, after a validated plan, puts the plan into the store
FinanceDebtPayoffExecutor ==
    /\ node = "finance_debt_payoff_executor"
    /\ \E outcome \in ExecutorOutcomes :
          namespace_docs' = IF outcome = "success"
                            THEN namespace_docs \cup { ComputedPlan }
                            ELSE namespace_docs
    /\ state_messages' = Append(state_messages, Tool)
    /\ visited' = Append(visited, node)
    /\ node' = "memory_update"
    /\ UNCHANGED << assistant_type, enabled_memory_types, executorVars >>

\* the other executors answer the tool call of the last message
OtherExecutor ==
    /\ node \in FinanceExecutors \ { "finance_debt_payoff_executor" }
    /\ state_messages' = IF state_messages[Len(state_messages)].tool_calls # <<>>
                         THEN Append(state_messages, Tool)
                         ELSE state_messages
    /\ visited' = Append(visited, node)
    /\ node' = "memory_update"
    /\ UNCHANGED << assistant_type, enabled_memory_types, namespace_docs, executorVars >>

\* memory_update has the extractor write a document of each memory type the
\* intent maps to, if the type is enabled and has a schema
MemoryUpdate ==
    /\ node = "memory_update"
    /\ LET memory_updates_needed ==
               IF RouteIntentMessages(state_messages) = {}
               THEN {}
               ELSE _get_memory_types_for_intent(RoutedIntent(state_messages), enabled_memory_types)
       IN  IF /\ "finance_debt_plans" \in memory_updates_needed
              /\ get_schema_for_memory_type(assistant_type, "finance_debt_plans")
           THEN \E written \in SUBSET { ExtractedPlan } :
                   namespace_docs' = namespace_docs \cup written
           ELSE UNCHANGED namespace_docs
    /\ visited' = Append(visited, node)
    /\ node' = "main_assistant"
    /\ UNCHANGED << assistant_type, enabled_memory_types, state_messages, executorVars >>

GraphNext ==
    \/ MainAssistant
    \/ Router
    \/ FinanceDebtPayoffExecutor
    \/ OtherExecutor
    \/ MemoryUpdate

GraphSpec == GraphInit /\ [][GraphNext]_vars

\* the graph runs a node whenever one is due
FairGraphSpec == GraphInit /\ [][GraphNext]_vars /\ WF_vars(GraphNext)

\* ------------------------------------------------------------------------
\* Claims about the graph

\* how often the run has executed a node
Runs(names) == Cardinality({ i \in DOMAIN visited : visited[i] \in names })

\* every executor the run has left was followed by memory_update and then
\* main_assistant, as far as the run has come
ExecutorFollowed ==
    \A i \in DOMAIN visited :
        visited[i] \in FinanceExecutors =>
            /\ (IF i < Len(visited) THEN visited[i + 1] ELSE node) = "memory_update"
            /\ i + 1 < Len(visited) => visited[i + 2] = "main_assistant"
            /\ i + 1 = Len(visited) => node = "main_assistant"

\* the shape of one turn: RouteIntent is offered on the first pass only, the
\* router and an executor run at most once, main_assistant at most twice
TurnShape ==
    /\ (node = "main_assistant" /\ should_route(state_messages)) => Runs({ "main_assistant" }) = 0
    /\ Runs({ "router" }) <= 1
    /\ Runs(FinanceExecutors) <= 1
    /\ Runs({ "main_assistant" }) <= 2
    /\ ExecutorFollowed

\* C24 as stated: every run of the graph keeps the shape of one turn (the
\* RouteIntent tool offered on the first pass only, the router and an
\* executor at most once, each executor followed by memory_update and
\* main_assistant, at most two passes of main_assistant) and reaches END
C24_AsStated == [](TurnShape) /\ <>(node = END)

\* C28 as stated: every value in the namespace ("finance_debt_plans",
\* assistant_type, user_id) is a plan computed by _calculate_debt_payoff_plan
\* that _validate_plan passed; no other node writes there
C28_AsStated ==
    \A doc \in namespace_docs :
        doc.origin = "_calculate_debt_payoff_plan" /\ doc.validated

\* C30 as stated: whenever the router's branch is taken, for either assistant
\* type and any intent, route_to_executor returns a key of the path map of
\* the router's conditional edges, so routing never targets a missing node
C30_AsStated ==
    node = "router" =>
        route_to_executor(state_messages, assistant_type) \in DOMAIN RouterEdges

====
